---- MODULE Spec2Model ----
(***************************************************************************)
(* HTracker: the tracker / entry server actions and the statistics they    *)
(* maintain on each tracker (src/app/actions/entries.ts and the tracker    *)
(* actions), over a document store with two collections.                   *)
(*                                                                         *)
(* Time is in milliseconds.  Ids are small integers; the id 0 stands for   *)
(* the empty string.  Entry fields that no action reads back (note text,   *)
(* tags, createdAt) are not stored; the note is kept as its length only,   *)
(* which is all the validation schema looks at.                            *)
(***************************************************************************)
EXTENDS Integers, FiniteSets, Sequences, TLC

VARIABLES trackers, entries, nextEntryId, nextTrackerId, now, result, history, txn,
          calls, currentValue

vars == <<trackers, entries, nextEntryId, nextTrackerId, now, result, history, txn,
          calls, currentValue>>

\* vars with the fields of result spelled out: op and success come before
\* args and data, whose shapes depend on them, so that two states are always
\* comparable
varsByField ==
  <<trackers, entries, nextEntryId, nextTrackerId, now, history, txn, calls,
    currentValue, result.op, result.success, result.outcome, result.error,
    result.args, result.data>>

(***************************************************************************)
(* Bounds of the model                                                     *)
(***************************************************************************)
MaxTrackers == 1
MaxEntries == 1
MaxTicks == 1
MaxCount == 2
MaxCalls == 5

(***************************************************************************)
(* Constants of the program                                                *)
(***************************************************************************)
MsPerSecond == 1000
NoteMax == 500
DefaultPageLimit == 10
DefaultEntryLimit == 50

Null == -99
Undefined == -98
EmptyId == 0

HalfSecond == MsPerSecond \div 2

TrackerType == {"TIMER", "COUNTER", "AMOUNT", "OCCURRENCE", "CUSTOM"}
TrackerStatus == {"ACTIVE", "INACTIVE", "ARCHIVED"}

(***************************************************************************)
(* Pure helpers                                                            *)
(***************************************************************************)
\* JavaScript truthiness of an optional number: null, undefined and 0 are falsy
Truthy(v) == v # Null /\ v # Undefined /\ v # 0

\* a Date object is truthy whatever instant it holds; null and undefined are not
IsSet(v) == v # Null /\ v # Undefined

\* a || b on optional values
OrElse(a, b) == IF Truthy(a) THEN a ELSE b

\* a || b on optional Date objects
DateOrElse(a, b) == IF IsSet(a) THEN a ELSE b

Max(a, b) == IF a >= b THEN a ELSE b

\* Math.round(x / 1000): the nearest integer, halves rounded up
RoundSeconds(ms) == (2 * ms + MsPerSecond) \div (2 * MsPerSecond)

\* Math.floor in place of Math.round
DurationFloored(startTime, endTime) == (endTime - startTime) \div MsPerSecond

DurationInSeconds(startTime, endTime) == RoundSeconds(endTime - startTime)

RECURSIVE SumOver(_, _)
SumOver(f, S) ==
  IF S = {} THEN 0
  ELSE LET k == CHOOSE x \in S : TRUE IN f[k] + SumOver(f, S \ {k})

(***************************************************************************)
(* The store                                                               *)
(***************************************************************************)
DB == [trackers |-> trackers, entries |-> entries,
       nextEntryId |-> nextEntryId, nextTrackerId |-> nextTrackerId]

StatDefaults ==
  [totalEntries |-> 0, totalTime |-> 0, totalValue |-> 0, totalCustom |-> ""]

\* a tracker created without statistics: the optional composite is null
NoStats == [present |-> FALSE] @@ StatDefaults

\* tracker.statistics?.field || 0
Stat(tracker, field) ==
  IF tracker.statistics.present THEN tracker.statistics[field] ELSE 0

\* tracker.statistics?.totalCustom
StatCustom(tracker) ==
  IF tracker.statistics.present THEN tracker.statistics.totalCustom ELSE ""

TrackerExists(db, tid) == tid \in DOMAIN db.trackers
EntryExists(db, eid) == eid \in DOMAIN db.entries

EntriesOf(db, tid) == {e \in DOMAIN db.entries : db.entries[e].trackerId = tid}

\* tx.trackerEntry.create
EntryCreate(db, rec) ==
  [db EXCEPT !.entries = (db.nextEntryId :> rec) @@ db.entries,
             !.nextEntryId = db.nextEntryId + 1]

\* tx.trackerEntry.update with the fields of patch that are not undefined
EntryUpdate(db, eid, patch) ==
  [db EXCEPT !.entries[eid] =
     [f \in DOMAIN db.entries[eid] |->
        IF f \in DOMAIN patch /\ patch[f] # Undefined
        THEN patch[f] ELSE db.entries[eid][f]]]

\* tx.trackerEntry.delete
EntryDelete(db, eid) ==
  [db EXCEPT !.entries = [e \in DOMAIN db.entries \ {eid} |-> db.entries[e]]]

\* tx.tracker.update on an existing tracker; updatedAt is @updatedAt, so
\* every update stamps it, whether or not the call passes it
TrackerUpdate(db, tid, patch, t) ==
  [db EXCEPT !.trackers[tid] =
     [f \in DOMAIN db.trackers[tid] |->
        IF f = "updatedAt" THEN t
        ELSE IF f \in DOMAIN patch THEN patch[f] ELSE db.trackers[tid][f]]]

\* statistics: {...} replaces the embedded document; omitted fields take
\* their schema defaults
SetStatistics(fields) == [present |-> TRUE] @@ fields @@ StatDefaults

(***************************************************************************)
(* Outcomes of a transaction body and the response envelope                *)
(***************************************************************************)
RecordNotFound == "Record to update not found"
StorageError == "Storage error"

Returned(db, data) == [db |-> db, threw |-> FALSE, kind |-> "", error |-> "", data |-> data]
Thrown(db, kind, msg) == [db |-> db, threw |-> TRUE, kind |-> kind, error |-> msg, data |-> Null]

\* a storage fault at the last statement of the body
Faulty(r, fault) == IF fault /\ ~r.threw THEN Thrown(r.db, "error", StorageError) ELSE r

\* the writes of the body kept although it threw
TransactionKeepsWrites(r, db) == r.db

\* prisma.$transaction: the writes of the body are kept only if it returns
Transaction(r, db) == IF r.threw THEN db ELSE r.db

Commit(db) ==
  /\ trackers' = db.trackers
  /\ entries' = db.entries
  /\ nextEntryId' = db.nextEntryId
  /\ nextTrackerId' = db.nextTrackerId

Success(op, args, data) ==
  [op |-> op, args |-> args, outcome |-> "returned",
   success |-> TRUE, error |-> "", data |-> data]

Failure(op, args, msg) ==
  [op |-> op, args |-> args, outcome |-> "returned",
   success |-> FALSE, error |-> msg, data |-> Null]

\* a catch that handles the ZodError and rethrows everything else
CatchGenericRethrows(op, args, r, generic) ==
  IF ~r.threw THEN Success(op, args, r.data)
  ELSE IF r.kind = "zod" THEN Failure(op, args, r.error)
  ELSE [op |-> op, args |-> args, outcome |-> "thrown",
        success |-> FALSE, error |-> "", data |-> Null]

\* a catch without the ZodError case: every throw becomes the generic message
CatchGenericHidesZod(op, args, r, generic) ==
  IF ~r.threw THEN Success(op, args, r.data)
  ELSE Failure(op, args, generic)

\* try { ... } catch: a ZodError becomes the validation message, anything
\* else the action's generic message
CatchGeneric(op, args, r, generic) ==
  IF ~r.threw THEN Success(op, args, r.data)
  ELSE IF r.kind = "zod" THEN Failure(op, args, r.error)
  ELSE Failure(op, args, generic)

\* catch of stopTimerEntry and getTrackerStats: the message of the Error
CatchMessage(op, args, r) ==
  IF ~r.threw THEN Success(op, args, r.data)
  ELSE Failure(op, args, r.error)

\* result holds the response of the call made by the last step
NoCall == [op |-> "none", args |-> Null, outcome |-> "returned",
           success |-> TRUE, error |-> "", data |-> Null]

(***************************************************************************)
(* EntrySchema                                                             *)
(***************************************************************************)
EntryValidationError(data) ==
  IF data.trackerId = EmptyId /\ data.noteLen > NoteMax
  THEN "Validation failed: Tracker ID is required, Note cannot exceed 500 characters"
  ELSE IF data.trackerId = EmptyId
  THEN "Validation failed: Tracker ID is required"
  ELSE IF data.noteLen > NoteMax
  THEN "Validation failed: Note cannot exceed 500 characters"
  ELSE ""

\* EntrySchema.parse: the default of date
EntryParse(data, t) ==
  [data EXCEPT !.date = IF IsSet(data.date) THEN data.date ELSE t]

(***************************************************************************)
(* createEntry                                                             *)
(***************************************************************************)
\* the COUNTER/AMOUNT branch guarded by if (value), which skips a value of 0
CreateEntryStatisticsSkipsZero(db, tid, v, t) ==
  LET tracker == db.trackers[tid] IN
  IF tracker.type \in {"COUNTER", "AMOUNT"} /\ Truthy(v.value)
  THEN TrackerUpdate(db, tid,
         [statistics |-> SetStatistics(
            [totalEntries |-> Stat(tracker, "totalEntries") + 1,
             totalValue |-> Stat(tracker, "totalValue") + v.value])], t)
  ELSE db

\* the OCCURRENCE/CUSTOM branch without totalCustom, which then takes its
\* default
CreateEntryStatisticsDropsCustom(db, tid, v, t) ==
  LET tracker == db.trackers[tid] IN
  IF tracker.type \in {"OCCURRENCE", "CUSTOM"}
  THEN TrackerUpdate(db, tid,
         [statistics |-> SetStatistics(
            [totalEntries |-> Stat(tracker, "totalEntries") + 1])], t)
  ELSE db

CreateEntryStatistics(db, tid, v, t) ==
  LET tracker == db.trackers[tid] IN
  CASE tracker.type = "TIMER" ->
         IF IsSet(v.startTime) /\ IsSet(v.endTime)
         THEN TrackerUpdate(db, tid,
                [statistics |-> SetStatistics(
                   [totalEntries |-> Stat(tracker, "totalEntries") + 1,
                    totalTime |-> Stat(tracker, "totalTime")
                                  + DurationInSeconds(v.startTime, v.endTime)])], t)
         ELSE db
    [] tracker.type \in {"COUNTER", "AMOUNT"} ->
         IF IsSet(v.value)
         THEN TrackerUpdate(db, tid,
                [statistics |-> SetStatistics(
                   [totalEntries |-> Stat(tracker, "totalEntries") + 1,
                    totalValue |-> Stat(tracker, "totalValue") + v.value])], t)
         ELSE db
    [] tracker.type \in {"OCCURRENCE", "CUSTOM"} ->
         TrackerUpdate(db, tid,
           [statistics |-> SetStatistics(
              [totalEntries |-> Stat(tracker, "totalEntries") + 1,
               totalCustom |-> StatCustom(tracker)])], t)

CreateEntryTx(db, data, t) ==
  LET v == EntryParse(data, t)
      id == db.nextEntryId
      d1 == EntryCreate(db, [trackerId |-> v.trackerId, startTime |-> v.startTime,
                             endTime |-> v.endTime, value |-> v.value,
                             date |-> v.date])
      d2 == IF IsSet(v.startTime) /\ IsSet(v.endTime) /\ ~Truthy(v.value)
            THEN EntryUpdate(d1, id,
                   [value |-> DurationInSeconds(v.startTime, v.endTime)])
            ELSE d1
  IN IF ~TrackerExists(d2, data.trackerId)
     THEN Thrown(d2, "error", RecordNotFound)
     ELSE Returned(CreateEntryStatistics(
                     TrackerUpdate(d2, data.trackerId, <<>>, t),
                     data.trackerId, v, t),
                   [id |-> id])

createEntry(data, fault) ==
  LET r == IF EntryValidationError(data) # ""
           THEN Thrown(DB, "zod", EntryValidationError(data))
           ELSE Faulty(CreateEntryTx(DB, data, now), fault)
  IN /\ Commit(Transaction(r, DB))
     /\ result' = CatchGeneric("createEntry", data, r, "Failed to create entry")
     /\ UNCHANGED now

(***************************************************************************)
(* getEntry                                                                *)
(***************************************************************************)
GetEntryRead(db, id) ==
  IF EntryExists(db, id) THEN Returned(db, [found |-> TRUE, entry |-> db.entries[id]])
  ELSE Returned(db, [found |-> FALSE])

getEntry(id, fault) ==
  LET r == Faulty(GetEntryRead(DB, id), fault)
  IN /\ result' = IF ~r.threw /\ ~r.data.found
                  THEN Failure("getEntry", id, "Entry not found")
                  ELSE CatchGeneric("getEntry", id, r, "Failed to retrieve entry")
     /\ UNCHANGED <<trackers, entries, nextEntryId, nextTrackerId, now>>

(***************************************************************************)
(* updateEntry                                                             *)
(***************************************************************************)
\* aggregate _sum.value: the sum of the non-null values, null when there is none
AggregateSum(db, S) ==
  LET V == {e \in S : db.entries[e].value # Null}
  IN IF V = {} THEN Null ELSE SumOver([e \in V |-> db.entries[e].value], V)

UpdateEntryStatistics(db, trackerId, t) ==
  LET tracker == db.trackers[trackerId]
      mine == EntriesOf(db, trackerId)
      completed == {e \in mine : db.entries[e].startTime # Null
                                 /\ db.entries[e].endTime # Null}
      valued == {e \in mine : db.entries[e].value # Null}
  IN
  CASE tracker.type = "TIMER" ->
         TrackerUpdate(db, trackerId,
           [statistics |-> SetStatistics(
              [totalEntries |-> Cardinality(completed),
               totalTime |-> OrElse(AggregateSum(db, completed), 0)])], t)
    [] tracker.type \in {"COUNTER", "AMOUNT"} ->
         TrackerUpdate(db, trackerId,
           [statistics |-> SetStatistics(
              [totalEntries |-> Cardinality(valued),
               totalValue |-> OrElse(AggregateSum(db, valued), 0)])], t)
    [] tracker.type \in {"OCCURRENCE", "CUSTOM"} ->
         TrackerUpdate(db, trackerId,
           [statistics |-> SetStatistics(
              [totalEntries |-> Cardinality(mine),
               totalCustom |-> StatCustom(tracker)])], t)

UpdateEntryTx(db, id, data, t) ==
  IF ~EntryExists(db, id) THEN Thrown(db, "error", "Entry not found")
  ELSE
    LET originalEntry == db.entries[id]
        d1 == EntryUpdate(db, id,
                [trackerId |-> data.trackerId, startTime |-> data.startTime,
                 endTime |-> data.endTime, value |-> data.value,
                 date |-> data.date])
        trackerId == IF data.trackerId # Undefined THEN data.trackerId
                     ELSE originalEntry.trackerId
        startTime == DateOrElse(data.startTime, originalEntry.startTime)
        endTime == DateOrElse(data.endTime, originalEntry.endTime)
        d2 == IF IsSet(startTime) /\ IsSet(endTime) /\ ~Truthy(data.value)
              THEN EntryUpdate(d1, id,
                     [value |-> DurationInSeconds(startTime, endTime)])
              ELSE d1
    IN IF TrackerExists(d2, trackerId)
       THEN Returned(UpdateEntryStatistics(d2, trackerId, t), [id |-> id])
       ELSE Returned(d2, [id |-> id])

updateEntry(id, data, fault) ==
  LET r == IF EntryValidationError(data) # ""
           THEN Thrown(DB, "zod", EntryValidationError(data))
           ELSE Faulty(UpdateEntryTx(DB, id, data, now), fault)
  IN /\ Commit(Transaction(r, DB))
     /\ result' = CatchGeneric("updateEntry", [id |-> id, data |-> data], r,
                               "Failed to update entry")
     /\ UNCHANGED now

(***************************************************************************)
(* deleteEntry                                                             *)
(***************************************************************************)
DeleteEntryStatistics(db, entry, tracker, t) ==
  CASE tracker.type = "TIMER" ->
         IF IsSet(entry.startTime) /\ IsSet(entry.endTime) /\ Truthy(entry.value)
         THEN TrackerUpdate(db, entry.trackerId,
                [statistics |-> SetStatistics(
                   [totalEntries |-> Max(0, Stat(tracker, "totalEntries") - 1),
                    totalTime |-> Max(0, Stat(tracker, "totalTime")
                                         - OrElse(entry.value, 0))])], t)
         ELSE db
    [] tracker.type \in {"COUNTER", "AMOUNT"} ->
         IF IsSet(entry.value)
         THEN TrackerUpdate(db, entry.trackerId,
                [statistics |-> SetStatistics(
                   [totalEntries |-> Max(0, Stat(tracker, "totalEntries") - 1),
                    totalValue |-> Max(0, Stat(tracker, "totalValue")
                                          - entry.value)])], t)
         ELSE db
    [] tracker.type \in {"OCCURRENCE", "CUSTOM"} ->
         TrackerUpdate(db, entry.trackerId,
           [statistics |-> SetStatistics(
              [totalEntries |-> Max(0, Stat(tracker, "totalEntries") - 1),
               totalCustom |-> StatCustom(tracker)])], t)

DeleteEntryTx(db, id, t) ==
  IF ~EntryExists(db, id) THEN Thrown(db, "error", "Entry not found")
  ELSE
    LET entry == db.entries[id] IN
    IF ~TrackerExists(db, entry.trackerId)
    THEN Thrown(db, "error", "Tracker not found")
    ELSE Returned(DeleteEntryStatistics(EntryDelete(db, id), entry,
                                        db.trackers[entry.trackerId], t),
                  [id |-> id])

deleteEntry(id, fault) ==
  LET r == Faulty(DeleteEntryTx(DB, id, now), fault)
  IN /\ Commit(Transaction(r, DB))
     /\ result' = CatchGeneric("deleteEntry", id, r, "Failed to delete entry")
     /\ UNCHANGED now

(***************************************************************************)
(* startTimerEntry, stopTimerEntry, addCounterEntry                        *)
(***************************************************************************)
StartTimerEntryTx(db, trackerId, t) ==
  LET id == db.nextEntryId
      d1 == EntryCreate(db, [trackerId |-> trackerId, startTime |-> t,
                             endTime |-> Null, value |-> Null, date |-> t])
  IN IF ~TrackerExists(d1, trackerId)
     THEN Thrown(d1, "error", RecordNotFound)
     ELSE Returned(TrackerUpdate(d1, trackerId, [status |-> "ACTIVE"], t),
                   [id |-> id])

startTimerEntry(trackerId, fault) ==
  LET r == Faulty(StartTimerEntryTx(DB, trackerId, now), fault)
  IN /\ Commit(Transaction(r, DB))
     /\ result' = CatchGeneric("startTimerEntry", trackerId, r,
                               "Failed to start timer")
     /\ UNCHANGED now

StopTimerEntryTx(db, entryId, t) ==
  IF ~EntryExists(db, entryId) \/ ~IsSet(db.entries[entryId].startTime)
  THEN Thrown(db, "error", "Timer entry not found or invalid")
  ELSE
    LET currentEntry == db.entries[entryId]
        duration == DurationInSeconds(currentEntry.startTime, t)
        d1 == EntryUpdate(db, entryId, [endTime |-> t, value |-> duration])
    IN IF ~TrackerExists(d1, currentEntry.trackerId)
       THEN Thrown(d1, "error", RecordNotFound)
       ELSE LET tracker == d1.trackers[currentEntry.trackerId] IN
            Returned(
              TrackerUpdate(d1, currentEntry.trackerId,
                [status |-> "INACTIVE",
                 statistics |-> SetStatistics(
                   [totalEntries |-> Stat(tracker, "totalEntries") + 1,
                    totalTime |-> Stat(tracker, "totalTime") + duration])], t),
              [id |-> entryId, duration |-> duration])

stopTimerEntry(entryId, fault) ==
  LET r == Faulty(StopTimerEntryTx(DB, entryId, now), fault)
  IN /\ Commit(Transaction(r, DB))
     /\ result' = CatchMessage("stopTimerEntry", entryId, r)
     /\ UNCHANGED now

AddCounterEntryTx(db, trackerId, value, t) ==
  LET id == db.nextEntryId
      d1 == EntryCreate(db, [trackerId |-> trackerId, startTime |-> Null,
                             endTime |-> Null, value |-> value, date |-> t])
  IN IF ~TrackerExists(d1, trackerId)
     THEN Thrown(d1, "error", RecordNotFound)
     ELSE LET tracker == d1.trackers[trackerId] IN
          Returned(
            TrackerUpdate(d1, trackerId,
              [statistics |-> SetStatistics(
                 [totalEntries |-> Stat(tracker, "totalEntries") + 1,
                  totalValue |-> Stat(tracker, "totalValue") + value])], t),
            [id |-> id])

addCounterEntry(trackerId, value, fault) ==
  LET r == Faulty(AddCounterEntryTx(DB, trackerId, value, now), fault)
  IN /\ Commit(Transaction(r, DB))
     /\ result' = CatchGeneric("addCounterEntry",
                               [trackerId |-> trackerId, value |-> value], r,
                               "Failed to add counter entry")
     /\ UNCHANGED now

(***************************************************************************)
(* Ordered reads: findMany with orderBy, skip and take                     *)
(***************************************************************************)
Min(a, b) == IF a <= b THEN a ELSE b

Orderings(S) ==
  {s \in [1..Cardinality(S) -> S] : \A i, j \in 1..Cardinality(S) : i # j => s[i] # s[j]}

\* the orders the store may return S in when Before(x, y) says x sorts
\* strictly before y: elements that compare equal come in any order
SortedBy(S, Before(_, _)) ==
  {s \in Orderings(S) : \A i, j \in 1..Cardinality(S) : i < j => ~Before(s[j], s[i])}

SkipTake(s, skip, take) == SubSeq(s, skip + 1, Min(Len(s), skip + take))

(***************************************************************************)
(* getEntriesByTracker                                                     *)
(***************************************************************************)
EntriesByDateDesc(db, trackerId) ==
  LET Later(x, y) == db.entries[x].date > db.entries[y].date
  IN SortedBy(EntriesOf(db, trackerId), Later)

getEntriesByTracker(trackerId, limit, fault) ==
  \E s \in EntriesByDateDesc(DB, trackerId) :
    LET r == Faulty(Returned(DB, SkipTake(s, 0, limit)), fault)
    IN /\ result' = CatchGeneric("getEntriesByTracker",
                                 [trackerId |-> trackerId, limit |-> limit], r,
                                 "Failed to retrieve entries")
       /\ UNCHANGED <<trackers, entries, nextEntryId, nextTrackerId, now>>

(***************************************************************************)
(* getTrackerStats                                                         *)
(***************************************************************************)
MsPerDay == 24 * 60 * 60 * MsPerSecond

\* days before the first of each month of a common year
MonthOffsets == {0, 31, 59, 90, 120, 151, 181, 212, 243, 273, 304, 334}

\* new Date(y, m, d) of now: local midnight, with UTC as the local zone
TodayStart(t) == t - (t % MsPerDay)

\* getDay() of a day counted from Thursday 1 January 1970
DayOfWeek(t) == ((t \div MsPerDay) + 4) % 7

\* setDate(getDate() + getDay()): the week start taken forwards
WeekStartAhead(t) == TodayStart(t) + DayOfWeek(t) * MsPerDay

WeekStart(t) == TodayStart(t) - DayOfWeek(t) * MsPerDay

\* new Date(y, m, 1), for instants of the year 1970
MonthStart(t) ==
  LET day == t \div MsPerDay
      first == CHOOSE o \in MonthOffsets :
                 o <= day /\ \A p \in MonthOffsets : p <= day => p <= o
  IN first * MsPerDay

\* date: { gt: windowStart } in place of gte
WindowTotalAfter(db, trackerId, type, windowStart) ==
  LET since == {e \in EntriesOf(db, trackerId) : db.entries[e].date > windowStart}
      completed == {e \in since : db.entries[e].startTime # Null
                                  /\ db.entries[e].endTime # Null}
      valued == {e \in since : db.entries[e].value # Null}
      Coalesce(x) == IF x = Null THEN 0 ELSE x
  IN CASE type = "TIMER" -> Coalesce(AggregateSum(db, completed))
       [] type \in {"COUNTER", "AMOUNT"} -> Coalesce(AggregateSum(db, valued))
       [] OTHER -> Cardinality(since)

WindowTotal(db, trackerId, type, windowStart) ==
  LET since == {e \in EntriesOf(db, trackerId) : db.entries[e].date >= windowStart}
      completed == {e \in since : db.entries[e].startTime # Null
                                  /\ db.entries[e].endTime # Null}
      valued == {e \in since : db.entries[e].value # Null}
      Coalesce(x) == IF x = Null THEN 0 ELSE x
  IN CASE type = "TIMER" -> Coalesce(AggregateSum(db, completed))
       [] type \in {"COUNTER", "AMOUNT"} -> Coalesce(AggregateSum(db, valued))
       [] OTHER -> Cardinality(since)

GetTrackerStatsRead(db, trackerId, t) ==
  IF ~TrackerExists(db, trackerId) THEN Thrown(db, "error", "Tracker not found")
  ELSE LET type == db.trackers[trackerId].type IN
       Returned(db, [today |-> WindowTotal(db, trackerId, type, TodayStart(t)),
                     week |-> WindowTotal(db, trackerId, type, WeekStart(t)),
                     month |-> WindowTotal(db, trackerId, type, MonthStart(t))])

getTrackerStats(trackerId, fault) ==
  LET r == Faulty(GetTrackerStatsRead(DB, trackerId, now), fault)
  IN /\ result' = CatchMessage("getTrackerStats", trackerId, r)
     /\ UNCHANGED <<trackers, entries, nextEntryId, nextTrackerId, now>>

(***************************************************************************)
(* Strings of the tracker actions: sequences of characters.  An absent     *)
(* (undefined) or null string is a one-element sequence that no real       *)
(* string equals, since its element is not a single character.             *)
(***************************************************************************)
NoString == <<"undefined">>
NullString == <<"null">>
NoTags == {NoString}

HasString(s) == s # NoString /\ s # NullString

\* the characters of the model in code-point order
Alphabet == <<"A", "B", "a", "b">>

CharCode(c) == CHOOSE i \in 1..Len(Alphabet) : Alphabet[i] = c

Lower(c) == IF c = "A" THEN "a" ELSE IF c = "B" THEN "b" ELSE c

LowerCase(s) == [i \in 1..Len(s) |-> Lower(s[i])]

\* contains, mode: "insensitive"
ContainsInsensitive(s, sub) ==
  \E i \in 0..(Len(s) - Len(sub)) :
    SubSeq(LowerCase(s), i + 1, i + Len(sub)) = LowerCase(sub)

\* s sorts strictly before u in ascending string order
StringLess(s, u) ==
  \E i \in 1..(Len(u)) :
    /\ \A j \in 1..(i - 1) : j <= Len(s) /\ s[j] = u[j]
    /\ \/ i = Len(s) + 1
       \/ i <= Len(s) /\ CharCode(s[i]) < CharCode(u[i])

RECURSIVE JoinMessages(_)
JoinMessages(msgs) ==
  IF Len(msgs) = 0 THEN ""
  ELSE IF Len(msgs) = 1 THEN msgs[1]
  ELSE msgs[1] \o ", " \o JoinMessages(Tail(msgs))

(***************************************************************************)
(* TrackerSchema                                                           *)
(***************************************************************************)
NameMax == 50
DescriptionMax == 200

\* /^#([0-9A-F]{3}){1,2}$/i over colors given as sequences of character
\* classes: "#", "h" for a hexadecimal digit, "x" for any other character
ColorMatches(c) ==
  /\ Len(c) \in {4, 7}
  /\ c[1] = "#"
  /\ \A i \in 2..Len(c) : c[i] = "h"

\* the messages of the issues, in the order of the schema's keys; partial
\* is TRUE for TrackerSchema.partial()
TrackerIssues(data, partial) ==
  (IF data.name = NoString
   THEN (IF partial THEN <<>> ELSE <<"Required">>)
   ELSE IF data.name = NullString THEN <<"Expected string, received null">>
   ELSE IF Len(data.name) < 1 THEN <<"Name is required">>
   ELSE IF Len(data.name) > NameMax THEN <<"Name cannot exceed 50 characters">>
   ELSE <<>>)
  \o (IF HasString(data.description) /\ Len(data.description) > DescriptionMax
      THEN <<"Description cannot exceed 200 characters">> ELSE <<>>)
  \o (IF data.type = "undefined"
      THEN (IF partial THEN <<>> ELSE <<"Please select a valid tracker type">>)
      ELSE IF data.type \notin TrackerType
      THEN <<"Please select a valid tracker type">> ELSE <<>>)
  \o (IF data.status # "undefined" /\ data.status \notin TrackerStatus
      THEN <<"Invalid enum value">> ELSE <<>>)
  \o (IF HasString(data.color) /\ ~ColorMatches(data.color)
      THEN <<"Invalid color format">> ELSE <<>>)

TrackerValidationError(data, partial) ==
  IF TrackerIssues(data, partial) = <<>> THEN ""
  ELSE "Validation failed: " \o JoinMessages(TrackerIssues(data, partial))

(***************************************************************************)
(* createTracker, getTracker, updateTracker, deleteTracker                 *)
(***************************************************************************)
CreateTrackerWrite(db, data, t) ==
  LET id == db.nextTrackerId
      rec == [name |-> data.name,
              description |-> IF HasString(data.description)
                              THEN data.description ELSE NullString,
              tags |-> IF data.tags = NoTags THEN {} ELSE data.tags,
              type |-> data.type,
              status |-> "INACTIVE",
              statistics |-> NoStats,
              createdAt |-> t,
              updatedAt |-> t]
  IN Returned([db EXCEPT !.trackers = (id :> rec) @@ db.trackers,
                         !.nextTrackerId = id + 1],
              [id |-> id])

createTracker(data, fault) ==
  LET r == IF TrackerValidationError(data, FALSE) # ""
           THEN Thrown(DB, "zod", TrackerValidationError(data, FALSE))
           ELSE Faulty(CreateTrackerWrite(DB, data, now), fault)
  IN /\ Commit(Transaction(r, DB))
     /\ result' = CatchGeneric("createTracker", data, r, "Failed to create tracker")
     /\ UNCHANGED now

\* include: { entries: { orderBy: { date: "desc" }, take: 5 } }
RecentEntriesTake == 5

GetTrackerRead(db, id, s) ==
  IF TrackerExists(db, id)
  THEN Returned(db, [found |-> TRUE, tracker |-> db.trackers[id],
                     entries |-> SkipTake(s, 0, RecentEntriesTake)])
  ELSE Returned(db, [found |-> FALSE])

getTracker(id, fault) ==
  \E s \in EntriesByDateDesc(DB, id) :
    LET r == Faulty(GetTrackerRead(DB, id, s), fault)
    IN /\ result' = IF ~r.threw /\ ~r.data.found
                    THEN Failure("getTracker", id, "Tracker not found")
                    ELSE CatchGeneric("getTracker", id, r,
                                      "Failed to retrieve tracker")
       /\ UNCHANGED <<trackers, entries, nextEntryId, nextTrackerId, now>>

\* the fields of a partial input that are present
TrackerPatch(data) ==
  LET present == {f \in {"name", "description", "tags", "type", "status"} :
                    CASE f = "name" -> data.name # NoString
                      [] f = "description" -> data.description # NoString
                      [] f = "tags" -> data.tags # NoTags
                      [] f = "type" -> data.type # "undefined"
                      [] f = "status" -> data.status # "undefined"}
  IN [f \in present |-> data[f]]

UpdateTrackerWrite(db, id, data, t) ==
  IF ~TrackerExists(db, id) THEN Thrown(db, "error", RecordNotFound)
  ELSE Returned(TrackerUpdate(db, id, TrackerPatch(data), t), [id |-> id])

updateTracker(id, data, fault) ==
  LET r == IF TrackerValidationError(data, TRUE) # ""
           THEN Thrown(DB, "zod", TrackerValidationError(data, TRUE))
           ELSE Faulty(UpdateTrackerWrite(DB, id, data, now), fault)
  IN /\ Commit(Transaction(r, DB))
     /\ result' = CatchGeneric("updateTracker", [id |-> id, data |-> data], r,
                               "Failed to update tracker")
     /\ UNCHANGED now

\* prisma.tracker.delete without the cascade to the entries
DeleteTrackerKeepsEntries(db, id) ==
  IF ~TrackerExists(db, id) THEN Thrown(db, "error", RecordNotFound)
  ELSE Returned(
         [db EXCEPT
            !.trackers = [k \in DOMAIN db.trackers \ {id} |-> db.trackers[k]]],
         [id |-> id])

\* prisma.tracker.delete, with the entries removed by onDelete: Cascade
DeleteTrackerWrite(db, id) ==
  IF ~TrackerExists(db, id) THEN Thrown(db, "error", RecordNotFound)
  ELSE Returned(
         [db EXCEPT
            !.trackers = [k \in DOMAIN db.trackers \ {id} |-> db.trackers[k]],
            !.entries = [e \in DOMAIN db.entries \ EntriesOf(db, id) |-> db.entries[e]]],
         [id |-> id])

deleteTracker(id, fault) ==
  LET r == Faulty(DeleteTrackerWrite(DB, id), fault)
  IN /\ Commit(Transaction(r, DB))
     /\ result' = CatchGeneric("deleteTracker", id, r, "Failed to delete tracker")
     /\ UNCHANGED now

(***************************************************************************)
(* getTrackers                                                             *)
(***************************************************************************)
NoFilter == "undefined"

TrackerMatches(db, id, filters) ==
  LET tr == db.trackers[id] IN
  /\ filters.status # NoFilter => tr.status = filters.status
  /\ filters.type # NoFilter => tr.type = filters.type
  /\ (filters.search # NoString /\ filters.search # <<>>) =>
       \/ ContainsInsensitive(tr.name, filters.search)
       \/ tr.description # NullString
          /\ ContainsInsensitive(tr.description, filters.search)
       \/ filters.search \in tr.tags

TrackersOrdered(db, S, sort) ==
  LET ByName(x, y) == StringLess(db.trackers[x].name, db.trackers[y].name)
      ByCreated(x, y) == db.trackers[x].createdAt > db.trackers[y].createdAt
      ByUpdated(x, y) == db.trackers[x].updatedAt > db.trackers[y].updatedAt
  IN CASE sort = "name" -> SortedBy(S, ByName)
       [] sort = "created" -> SortedBy(S, ByCreated)
       [] OTHER -> SortedBy(S, ByUpdated)

\* Math.floor in place of Math.ceil for totalPages
GetTrackersReadFloor(db, filters, s) ==
  LET page == IF filters.page # Undefined /\ filters.page > 0 THEN filters.page ELSE 1
      limit == IF filters.limit # Undefined /\ filters.limit > 0
               THEN filters.limit ELSE DefaultPageLimit
      skip == (page - 1) * limit
      total == Len(s)
      totalPages == total \div limit
      slice == SkipTake(s, skip, limit)
  IN Returned(db,
       [trackers |-> [i \in 1..Len(slice) |->
                        [id |-> slice[i],
                         entriesCount |-> Cardinality(EntriesOf(db, slice[i]))]],
        total |-> total, totalPages |-> totalPages, page |-> page])

GetTrackersRead(db, filters, s) ==
  LET page == IF filters.page # Undefined /\ filters.page > 0 THEN filters.page ELSE 1
      limit == IF filters.limit # Undefined /\ filters.limit > 0
               THEN filters.limit ELSE DefaultPageLimit
      skip == (page - 1) * limit
      total == Len(s)
      totalPages == (total + limit - 1) \div limit
      slice == SkipTake(s, skip, limit)
  IN Returned(db,
       [trackers |-> [i \in 1..Len(slice) |->
                        [id |-> slice[i],
                         entriesCount |-> Cardinality(EntriesOf(db, slice[i]))]],
        total |-> total, totalPages |-> totalPages, page |-> page])

getTrackers(filters, fault) ==
  \E s \in TrackersOrdered(DB, {id \in DOMAIN trackers : TrackerMatches(DB, id, filters)},
                           filters.sort) :
    LET r == Faulty(GetTrackersRead(DB, filters, s), fault)
    IN /\ result' = CatchGeneric("getTrackers", filters, r,
                                 "Failed to retrieve trackers")
       /\ UNCHANGED <<trackers, entries, nextEntryId, nextTrackerId, now>>

(***************************************************************************)
(* The clock                                                               *)
(***************************************************************************)
Tick ==
  /\ now < MaxTicks * HalfSecond
  /\ now' = now + HalfSecond
  /\ result' = NoCall
  /\ UNCHANGED <<trackers, entries, nextEntryId, nextTrackerId>>

(***************************************************************************)
(* Inputs                                                                  *)
(***************************************************************************)
TrackerIdInputs == 0..MaxTrackers
EntryIdInputs == 1..MaxEntries
Faults == BOOLEAN

NewTrackerInput(name, type) ==
  [name |-> name, description |-> NoString, tags |-> NoTags, type |-> type,
   status |-> "undefined", color |-> NoString]

NoTrackerChange == NewTrackerInput(NoString, "undefined")

NewEntryInput(trackerId, startTime, endTime, value) ==
  [trackerId |-> trackerId, startTime |-> startTime, endTime |-> endTime,
   value |-> value, date |-> Undefined, noteLen |-> 0]

NoEntryChange == NewEntryInput(Undefined, Undefined, Undefined, Undefined)

NoFilters ==
  [status |-> NoFilter, type |-> NoFilter, search |-> NoString,
   sort |-> "undefined", page |-> Undefined, limit |-> Undefined]

(***************************************************************************)
(* The server actions over given sets of inputs                            *)
(***************************************************************************)
CreateTrackerFrom(D, F) ==
  /\ nextTrackerId <= MaxTrackers
  /\ \E data \in D, fault \in F : createTracker(data, fault)

GetTrackerFrom(I, F) == \E id \in I, fault \in F : getTracker(id, fault)

UpdateTrackerFrom(I, D, F) ==
  \E id \in I, data \in D, fault \in F : updateTracker(id, data, fault)

DeleteTrackerFrom(I, F) == \E id \in I, fault \in F : deleteTracker(id, fault)

GetTrackersFrom(D, F) == \E filters \in D, fault \in F : getTrackers(filters, fault)

CreateEntryFrom(D, F, max) ==
  /\ nextEntryId <= max
  /\ \E data \in D, fault \in F : createEntry(data, fault)

GetEntryFrom(I, F) == \E id \in I, fault \in F : getEntry(id, fault)

UpdateEntryFrom(I, D, F) ==
  \E id \in I, data \in D, fault \in F : updateEntry(id, data, fault)

DeleteEntryFrom(I, F) == \E id \in I, fault \in F : deleteEntry(id, fault)

GetEntriesByTrackerFrom(I, L, F) ==
  \E trackerId \in I, limit \in L, fault \in F :
    getEntriesByTracker(trackerId, limit, fault)

StartTimerEntryFrom(I, F, max) ==
  /\ nextEntryId <= max
  /\ \E trackerId \in I, fault \in F : startTimerEntry(trackerId, fault)

\* a stop adds one to totalEntries each time it is called, so the calls are
\* capped by the count already reached
StopTimerEntryFrom(I, F) ==
  /\ \A t \in DOMAIN trackers : trackers[t].statistics.totalEntries < MaxCount
  /\ \E id \in I, fault \in F : stopTimerEntry(id, fault)

AddCounterEntryFrom(I, V, F, max) ==
  /\ nextEntryId <= max
  /\ \E trackerId \in I, value \in V, fault \in F :
       addCounterEntry(trackerId, value, fault)

GetTrackerStatsFrom(I, F) ==
  \E trackerId \in I, fault \in F : getTrackerStats(trackerId, fault)

(***************************************************************************)
(* Spec: runs of up to MaxCalls calls of the fourteen server actions, with  *)
(* input validation failures, unknown ids and storage faults; calls counts *)
(* the calls made                                                          *)
(***************************************************************************)
InvalidTrackerInput ==
  [NewTrackerInput(<<>>, "BOGUS") EXCEPT !.color = <<"#", "h", "x", "h">>]

TrackerInputs == {NewTrackerInput(<<"a">>, "TIMER"), InvalidTrackerInput}

TrackerChanges ==
  {[NoTrackerChange EXCEPT !.status = "ARCHIVED"],
   [NoTrackerChange EXCEPT !.type = "COUNTER"],
   [NoTrackerChange EXCEPT !.name = <<>>]}

EntryInputs ==
  {NewEntryInput(tid, 0, MsPerSecond, Null) : tid \in TrackerIdInputs}
  \cup {[NewEntryInput(1, Null, Null, 5) EXCEPT !.noteLen = NoteMax + 1]}

\* an id that no tracker ever has
UnknownTrackerId == MaxTrackers + 1

EntryChanges ==
  {[NoEntryChange EXCEPT !.value = 7]}
  \cup {[NoEntryChange EXCEPT !.trackerId = tid] :
          tid \in TrackerIdInputs \cup {UnknownTrackerId}}

FilterInputs ==
  {NoFilters, [NoFilters EXCEPT !.type = "TIMER", !.sort = "name", !.limit = 1]}

CreateTracker == CreateTrackerFrom(TrackerInputs, Faults)
GetTracker == GetTrackerFrom(TrackerIdInputs, Faults)
UpdateTracker == UpdateTrackerFrom(TrackerIdInputs, TrackerChanges, Faults)
DeleteTracker == DeleteTrackerFrom(TrackerIdInputs, Faults)
GetTrackers == GetTrackersFrom(FilterInputs, Faults)
CreateEntry == CreateEntryFrom(EntryInputs, Faults, MaxEntries)
GetEntry == GetEntryFrom(EntryIdInputs, Faults)
UpdateEntry == UpdateEntryFrom(EntryIdInputs, EntryChanges, Faults)
DeleteEntry == DeleteEntryFrom(EntryIdInputs, Faults)
GetEntriesByTracker == GetEntriesByTrackerFrom(TrackerIdInputs, {1}, Faults)
StartTimerEntry == StartTimerEntryFrom(TrackerIdInputs, Faults, MaxEntries)
StopTimerEntry == StopTimerEntryFrom(EntryIdInputs, Faults)
AddCounterEntry == AddCounterEntryFrom(TrackerIdInputs, {-3}, Faults, MaxEntries)
GetTrackerStats == GetTrackerStatsFrom(TrackerIdInputs, Faults)

Init ==
  /\ trackers = <<>>
  /\ entries = <<>>
  /\ nextEntryId = 1
  /\ nextTrackerId = 1
  /\ now = 0
  /\ result = NoCall
  /\ history = <<>>
  /\ txn = <<>>
  /\ calls = 0
  /\ currentValue = 0

Next ==
  /\ calls < MaxCalls
  /\ calls' = calls + 1
  /\ UNCHANGED currentValue
  /\ \/ CreateTracker
     \/ GetTracker
     \/ UpdateTracker
     \/ DeleteTracker
     \/ GetTrackers
     \/ CreateEntry
     \/ GetEntry
     \/ UpdateEntry
     \/ DeleteEntry
     \/ GetEntriesByTracker
     \/ StartTimerEntry
     \/ StopTimerEntry
     \/ AddCounterEntry
     \/ GetTrackerStats
  /\ UNCHANGED <<history, txn>>

Spec == Init /\ [][Next]_vars

(***************************************************************************)
(* SpecStats: one tracker of any type and the six entry mutations on it,   *)
(* with the clock running                                                  *)
(***************************************************************************)
MaxStatEntries == 2

NewTracker(name, type, t) ==
  [name |-> name, description |-> NullString, tags |-> {}, type |-> type,
   status |-> "INACTIVE", statistics |-> NoStats, createdAt |-> t, updatedAt |-> t]

\* the calls the tracker pages make: timer sessions (in progress, with
\* startTime = endTime, or completed) on a TIMER tracker, values on a
\* COUNTER or AMOUNT tracker, bare or rated entries on the others
StatsEntryInputs ==
  CASE trackers[1].type = "TIMER" ->
         {NewEntryInput(1, 0, 0, Null),
          NewEntryInput(1, 0, MsPerSecond + 600, Null)}
    [] trackers[1].type \in {"COUNTER", "AMOUNT"} ->
         {NewEntryInput(1, Null, Null, v) : v \in {-3, 0, 5}}
    [] OTHER ->
         {NewEntryInput(1, Null, Null, v) : v \in {Null, 5}}

StatsEntryChanges ==
  CASE trackers[1].type = "TIMER" ->
         {[NoEntryChange EXCEPT !.endTime = MsPerSecond + 600]}
    [] OTHER ->
         {[NoEntryChange EXCEPT !.value = -2]}

StatsEntryIds == 1..MaxStatEntries

StatsCreateEntry == CreateEntryFrom(StatsEntryInputs, {FALSE}, MaxStatEntries)
StatsUpdateEntry == UpdateEntryFrom(StatsEntryIds, StatsEntryChanges, {FALSE})
StatsDeleteEntry == DeleteEntryFrom(StatsEntryIds, {FALSE})

StatsStartTimerEntry ==
  /\ trackers[1].type = "TIMER"
  /\ StartTimerEntryFrom({1}, {FALSE}, MaxStatEntries)

StatsStopTimerEntry ==
  /\ trackers[1].type = "TIMER"
  /\ StopTimerEntryFrom(StatsEntryIds, {FALSE})

StatsAddCounterEntry ==
  /\ trackers[1].type \in {"COUNTER", "AMOUNT"}
  /\ AddCounterEntryFrom({1}, {-1, 1}, {FALSE}, MaxStatEntries)

StatsInit ==
  /\ \E type \in TrackerType : trackers = (1 :> NewTracker(<<"a">>, type, 0))
  /\ entries = <<>>
  /\ nextEntryId = 1
  /\ nextTrackerId = 2
  /\ now = 0
  /\ result = NoCall
  /\ history = <<>>
  /\ txn = <<>>
  /\ calls = 0
  /\ currentValue = 0

\* history: the trackers as they were before the createEntry of the last
\* step, empty when the last step was anything else
StatsNext ==
  /\ \/ StatsCreateEntry
     \/ StatsUpdateEntry
     \/ StatsDeleteEntry
     \/ StatsStartTimerEntry
     \/ StatsStopTimerEntry
     \/ StatsAddCounterEntry
     \/ Tick
  /\ history' = IF result'.op = "createEntry" /\ result'.success
               THEN trackers ELSE <<>>
  /\ UNCHANGED <<txn, calls, currentValue>>

SpecStats == StatsInit /\ [][StatsNext]_vars

(***************************************************************************)
(* SpecFaults: a TIMER or COUNTER tracker and the six entry mutations,      *)
(* called with valid and invalid inputs, for the tracker and for a tracker *)
(* that does not exist, each with and without a storage fault, with the    *)
(* clock running                                                           *)
(***************************************************************************)
FaultsTrackerIds == {1, UnknownTrackerId}

FaultsEntryInputs ==
  (CASE trackers[1].type = "TIMER" ->
          {NewEntryInput(tid, 0, MsPerSecond, Null) : tid \in FaultsTrackerIds}
     [] OTHER ->
          {NewEntryInput(tid, Null, Null, 5) : tid \in FaultsTrackerIds})
  \cup {[NewEntryInput(EmptyId, Null, Null, 5) EXCEPT !.noteLen = NoteMax + 1]}

FaultsEntryChanges ==
  StatsEntryChanges
  \cup {[NoEntryChange EXCEPT !.trackerId = tid] : tid \in {EmptyId, UnknownTrackerId}}

FaultsCreateEntry == CreateEntryFrom(FaultsEntryInputs, Faults, MaxEntries)
FaultsUpdateEntry == UpdateEntryFrom(EntryIdInputs, FaultsEntryChanges, Faults)
FaultsDeleteEntry == DeleteEntryFrom(EntryIdInputs, Faults)

FaultsStartTimerEntry ==
  /\ trackers[1].type = "TIMER"
  /\ StartTimerEntryFrom(FaultsTrackerIds, Faults, MaxEntries)

FaultsStopTimerEntry ==
  /\ trackers[1].type = "TIMER"
  /\ StopTimerEntryFrom(EntryIdInputs, Faults)

FaultsAddCounterEntry ==
  /\ trackers[1].type = "COUNTER"
  /\ AddCounterEntryFrom(FaultsTrackerIds, {-1}, Faults, MaxEntries)

FaultsInit ==
  /\ \E type \in {"TIMER", "COUNTER"} : trackers = (1 :> NewTracker(<<"a">>, type, 0))
  /\ entries = <<>>
  /\ nextEntryId = 1
  /\ nextTrackerId = 2
  /\ now = 0
  /\ result = NoCall
  /\ history = <<>>
  /\ txn = <<>>
  /\ calls = 0
  /\ currentValue = 0

FaultsNext ==
  /\ \/ FaultsCreateEntry
     \/ FaultsUpdateEntry
     \/ FaultsDeleteEntry
     \/ FaultsStartTimerEntry
     \/ FaultsStopTimerEntry
     \/ FaultsAddCounterEntry
     \/ Tick
  /\ UNCHANGED <<history, txn, calls, currentValue>>

SpecFaults == FaultsInit /\ [][FaultsNext]_vars

(***************************************************************************)
(* Statistics recomputed from the entries                                  *)
(***************************************************************************)
CompletedEntries(tid) ==
  {e \in EntriesOf(DB, tid) : entries[e].startTime # Null /\ entries[e].endTime # Null}

ValuedEntries(tid) == {e \in EntriesOf(DB, tid) : entries[e].value # Null}

SumOfValues(S) ==
  SumOver([e \in S |-> IF entries[e].value = Null THEN 0 ELSE entries[e].value], S)

StatisticsRederivable(tid) ==
  LET tr == trackers[tid] IN
  CASE tr.type = "TIMER" ->
         /\ Stat(tr, "totalEntries") = Cardinality(CompletedEntries(tid))
         /\ Stat(tr, "totalTime") = SumOfValues(CompletedEntries(tid))
    [] tr.type \in {"COUNTER", "AMOUNT"} ->
         /\ Stat(tr, "totalEntries") = Cardinality(ValuedEntries(tid))
         /\ Stat(tr, "totalValue") = SumOfValues(ValuedEntries(tid))
    [] OTHER ->
         Stat(tr, "totalEntries") = Cardinality(EntriesOf(DB, tid))

\* C1: in every reachable state each tracker's cached statistics equal the
\* values recomputed from its current entries (TIMER: completed entries and
\* the sum of their value; COUNTER/AMOUNT: entries with a value and their
\* sum; OCCURRENCE/CUSTOM: the number of entries).
C1_StatisticsMatchEntries ==
  \A tid \in DOMAIN trackers : StatisticsRederivable(tid)

\* the step is a successful createEntry on a TIMER tracker
TimerCreateStep ==
  /\ result'.op = "createEntry"
  /\ result'.success
  /\ result'.args.trackerId \in DOMAIN trackers
  /\ trackers[result'.args.trackerId].type = "TIMER"

StatDelta(tid, field) == Stat(trackers'[tid], field) - Stat(trackers[tid], field)

\* C2: a successful createEntry of an entry whose startTime equals its
\* endTime leaves a TIMER tracker's totalEntries and totalTime as they were.
C2_InProgressNotCounted ==
  [][(/\ TimerCreateStep
      /\ IsSet(result'.args.startTime)
      /\ result'.args.startTime = result'.args.endTime)
     => /\ StatDelta(result'.args.trackerId, "totalEntries") = 0
        /\ StatDelta(result'.args.trackerId, "totalTime") = 0]_vars

\* C4: createEntry followed by deleteEntry of the same entry restores
\* totalEntries, totalTime and totalValue to what they were before the
\* createEntry, and none of them is negative afterwards.
C4_CreateDeleteRoundTrip ==
  [][(/\ result.op = "createEntry"
      /\ result.success
      /\ result'.op = "deleteEntry"
      /\ result'.success
      /\ result'.args = result.data.id)
     => \A f \in {"totalEntries", "totalTime", "totalValue"} :
          /\ Stat(trackers'[result.args.trackerId], f)
               = Stat(history[result.args.trackerId], f)
          /\ Stat(trackers'[result.args.trackerId], f) >= 0]_vars

\* the step is a successful updateEntry that changes only the value of an
\* entry of a COUNTER or AMOUNT tracker, from one number to another
ValueUpdateStep ==
  /\ result'.op = "updateEntry"
  /\ result'.success
  /\ result'.args.id \in DOMAIN entries
  /\ result'.args.data = [NoEntryChange EXCEPT !.value = result'.args.data.value]
  /\ IsSet(result'.args.data.value)
  /\ entries[result'.args.id].value # Null
  /\ entries[result'.args.id].value # result'.args.data.value
  /\ entries[result'.args.id].trackerId \in DOMAIN trackers
  /\ trackers[entries[result'.args.id].trackerId].type \in {"COUNTER", "AMOUNT"}

\* C6: an updateEntry that changes an entry's value from a to b changes
\* the totalValue of its COUNTER or AMOUNT tracker by exactly b - a and
\* leaves totalEntries unchanged.
C6_UpdateChangesTotalByDifference ==
  [][ValueUpdateStep
     => /\ StatDelta(entries[result'.args.id].trackerId, "totalValue")
             = result'.args.data.value - entries[result'.args.id].value
        /\ StatDelta(entries[result'.args.id].trackerId, "totalEntries") = 0]_vars

EntryMutations ==
  {"createEntry", "updateEntry", "deleteEntry",
   "startTimerEntry", "stopTimerEntry", "addCounterEntry"}

\* the tracker an updateEntry recomputes: the one given, else the entry's own
UpdateTarget(args) ==
  IF args.data.trackerId # Undefined THEN args.data.trackerId
  ELSE entries[args.id].trackerId

\* the step is a createEntry, updateEntry or deleteEntry whose owning
\* tracker does not exist
MissingOwnerStep ==
  \/ /\ result'.op = "createEntry"
     /\ result'.args.trackerId \notin DOMAIN trackers
  \/ /\ result'.op = "updateEntry"
     /\ result'.args.id \in DOMAIN entries
     /\ UpdateTarget(result'.args) \notin DOMAIN trackers
  \/ /\ result'.op = "deleteEntry"
     /\ result'.args \in DOMAIN entries
     /\ entries[result'.args].trackerId \notin DOMAIN trackers

\* C7: createEntry, updateEntry and deleteEntry fail and leave the entry
\* collection as it was when the owning tracker does not exist.
C7_MissingTrackerFailsMutation ==
  [][MissingOwnerStep => (~result'.success /\ entries' = entries)]_varsByField

\* C8: an entry mutation that returns a failure leaves the persisted
\* trackers and entries exactly as they were before the call.
C8_FailureCommitsNothing ==
  [][(result'.op \in EntryMutations /\ ~result'.success)
     => (trackers' = trackers /\ entries' = entries)]_vars

\* a createEntry failed on the tracker update, after its body had written
\* the entry
C8_Witness ==
  /\ result.op = "createEntry"
  /\ ~result.success
  /\ result.error = "Failed to create entry"
  /\ result.args.trackerId \notin DOMAIN trackers
  /\ result.args.trackerId # EmptyId

\* C10: every action returns an envelope, success with data or failure with
\* a non-empty error string, and lets no exception escape.
C10_AlwaysAnEnvelope ==
  /\ result.outcome = "returned"
  /\ result.success \in BOOLEAN
  /\ ~result.success => result.error # ""

\* a storage fault inside updateEntry came back as a failure envelope
C10_Witness ==
  /\ result.op = "updateEntry"
  /\ ~result.success
  /\ result.error = "Failed to update entry"
  /\ result.args.id \in DOMAIN entries

(***************************************************************************)
(* SpecCreates: a COUNTER or AMOUNT tracker with empty statistics and      *)
(* createEntry calls only; history is the sequence of the values created   *)
(***************************************************************************)
MaxCreates == 3

CreatesEntryInputs ==
  {NewEntryInput(1, Null, Null, v) : v \in {-3, 0, 2, 5}}
  \cup {NewEntryInput(1, 0, MsPerSecond, v) : v \in {0, 2}}

CreatesCreateEntry == CreateEntryFrom(CreatesEntryInputs, Faults, MaxCreates)

CreatesInit ==
  /\ \E type \in {"COUNTER", "AMOUNT"} : trackers = (1 :> NewTracker(<<"a">>, type, 0))
  /\ entries = <<>>
  /\ nextEntryId = 1
  /\ nextTrackerId = 2
  /\ now = 0
  /\ result = NoCall
  /\ history = <<>>
  /\ txn = <<>>
  /\ calls = 0
  /\ currentValue = 0

CreatesNext ==
  /\ \/ /\ CreatesCreateEntry
        /\ history' = IF result'.success THEN Append(history, result'.args.value)
                      ELSE history
     \/ /\ Tick
        /\ UNCHANGED history
  /\ UNCHANGED <<txn, calls, currentValue>>

SpecCreates == CreatesInit /\ [][CreatesNext]_vars

RECURSIVE SumSeq(_)
SumSeq(q) == IF q = <<>> THEN 0 ELSE Head(q) + SumSeq(Tail(q))

\* C5: after creating entries with values v1..vn on a COUNTER or AMOUNT
\* tracker that started with empty statistics, totalValue is v1 + ... + vn
\* and totalEntries is n; the values 5, -3, 2 give 4 and 3.
C5_TotalsAreSumAndCount ==
  /\ Stat(trackers[1], "totalValue") = SumSeq(history)
  /\ Stat(trackers[1], "totalEntries") = Len(history)
  /\ history = <<5, -3, 2>> =>
       /\ Stat(trackers[1], "totalValue") = 4
       /\ Stat(trackers[1], "totalEntries") = 3

C5_Witness ==
  /\ history = <<5, -3, 2>>
  /\ result.op = "createEntry"
  /\ result.success

(***************************************************************************)
(* SpecConc: requests that run createEntry or addCounterEntry on the same  *)
(* tracker at the same time, each in its own transaction of the store.     *)
(* The store is MongoDB (datasource db): a transaction reads from the      *)
(* snapshot taken at its first statement, plus its own writes, and its     *)
(* write to a document fails with a write conflict when another            *)
(* transaction has written that document since the snapshot or holds an    *)
(* uncommitted write to it.  Prisma does not retry, so the action's catch  *)
(* turns the conflict into a failure.                                      *)
(***************************************************************************)
MaxWriters == 2

Writers == 1..MaxWriters

Idle == [pc |-> "idle"]

ConcCalls ==
  IF trackers[1].type = "TIMER"
  THEN {[op |-> "createEntry", args |-> NewEntryInput(1, 0, MsPerSecond + 600, Null)]}
  ELSE {[op |-> "createEntry", args |-> NewEntryInput(1, Null, Null, v)] : v \in {-3, 5}}
       \cup {[op |-> "addCounterEntry", args |-> [trackerId |-> 1, value |-> 1]]}

\* the body of the transaction of a call, run on db
CallTx(call, db, t) ==
  IF call.op = "createEntry" THEN CreateEntryTx(db, call.args, t)
  ELSE AddCounterEntryTx(db, call.args.trackerId, call.args.value, t)

CallGeneric(call) ==
  IF call.op = "createEntry" THEN "Failed to create entry"
  ELSE "Failed to add counter entry"

\* the conflict check switched off
NoWriteConflict(p) == FALSE

WriteConflict(p) ==
  \/ txn[p].stale
  \/ \E q \in Writers \ {p} : txn[q].pc = "writing"

\* prisma.$transaction(async (tx) => { tx.trackerEntry.create(...) : the
\* first statement opens the transaction on the current state
Begin(p) ==
  /\ txn[p].pc = "idle"
  /\ \E call \in ConcCalls :
       txn' = [txn EXCEPT ![p] = [pc |-> "open", call |-> call, snap |-> DB,
                                  stale |-> FALSE]]
  /\ UNCHANGED <<trackers, entries, nextEntryId, nextTrackerId, now, result, history, calls, currentValue>>

\* the first tx.tracker.update of the body
WriteTracker(p) ==
  /\ txn[p].pc = "open"
  /\ IF WriteConflict(p)
     THEN /\ txn' = [txn EXCEPT ![p] = [pc |-> "aborted", call |-> txn[p].call]]
          /\ result' = CatchGeneric(txn[p].call.op, txn[p].call.args,
                                    Thrown(txn[p].snap, "error", StorageError),
                                    CallGeneric(txn[p].call))
     ELSE /\ txn' = [txn EXCEPT ![p].pc = "writing"]
          /\ UNCHANGED result
  /\ UNCHANGED <<trackers, entries, nextEntryId, nextTrackerId, now, history, calls, currentValue>>

\* the body returns and the transaction commits: its new entry and its
\* version of the tracker document reach the store
CommitTx(p) ==
  /\ txn[p].pc = "writing"
  /\ LET r == CallTx(txn[p].call, txn[p].snap, now)
         tid == txn[p].call.args.trackerId
         created == r.db.entries[txn[p].snap.nextEntryId]
     IN /\ trackers' = [trackers EXCEPT ![tid] = r.db.trackers[tid]]
        /\ entries' = (nextEntryId :> created) @@ entries
        /\ nextEntryId' = nextEntryId + 1
        /\ result' = CatchGeneric(txn[p].call.op, txn[p].call.args,
                                  Returned(r.db, [id |-> nextEntryId]),
                                  CallGeneric(txn[p].call))
  /\ txn' = [q \in Writers |->
               IF q = p THEN [pc |-> "committed", call |-> txn[p].call]
               ELSE IF txn[q].pc = "open" THEN [txn[q] EXCEPT !.stale = TRUE]
               ELSE txn[q]]
  /\ UNCHANGED <<nextTrackerId, now, history, calls, currentValue>>

ConcInitialDB(type) ==
  [trackers |-> (1 :> NewTracker(<<"a">>, type, 0)), entries |-> <<>>,
   nextEntryId |-> 1, nextTrackerId |-> 2]

ConcInit ==
  /\ \E type \in {"COUNTER", "TIMER"} : trackers = ConcInitialDB(type).trackers
  /\ entries = <<>>
  /\ nextEntryId = 1
  /\ nextTrackerId = 2
  /\ now = 0
  /\ result = NoCall
  /\ history = <<>>
  /\ txn = [p \in Writers |-> Idle]
  /\ calls = 0
  /\ currentValue = 0

ConcNext ==
  \E p \in Writers :
    \/ Begin(p)
    \/ WriteTracker(p)
    \/ CommitTx(p)

SpecConc == ConcInit /\ [][ConcNext]_vars

Committed == {p \in Writers : txn[p].pc = "committed"}

RECURSIVE SerialRun(_, _)
SerialRun(order, db) ==
  IF order = <<>> THEN db
  ELSE SerialRun(Tail(order), CallTx(txn[Head(order)].call, db, now).db)

NotFoundErrors ==
  {"Entry not found", "Tracker not found", "Timer entry not found or invalid"}

\* the step is a call addressed to an entry id or tracker id that does not
\* exist
MissingTargetStep ==
  \/ /\ result'.op \in {"getEntry", "deleteEntry", "stopTimerEntry"}
     /\ result'.args \notin DOMAIN entries
  \/ /\ result'.op = "updateEntry"
     /\ result'.args.id \notin DOMAIN entries
  \/ /\ result'.op \in {"getTracker", "deleteTracker", "getTrackerStats"}
     /\ result'.args \notin DOMAIN trackers
  \/ /\ result'.op = "updateTracker"
     /\ result'.args.id \notin DOMAIN trackers
  \/ /\ result'.op = "createEntry"
     /\ result'.args.trackerId # EmptyId
     /\ result'.args.trackerId \notin DOMAIN trackers

\* C11: every operation addressed to an entry id or tracker id that does
\* not exist returns a failure whose error says the entry or the tracker was
\* not found, not the generic failure message of the operation.
C11_MissingTargetSaysNotFound ==
  [][MissingTargetStep
     => (~result'.success /\ result'.error \in NotFoundErrors)]_varsByField

\* C12: no step changes the type of a tracker that exists before and after
\* it, so each tracker keeps the type it was created with.
C12_TypeNeverChanges ==
  [][\A id \in DOMAIN trackers \cap DOMAIN trackers' :
       trackers'[id].type = trackers[id].type]_vars

(***************************************************************************)
(* Cascade of deleteTracker                                                *)
(***************************************************************************)
\* C13: a successful deleteTracker(id) leaves no entry whose trackerId is
\* id, and a getEntriesByTracker(id) that follows it returns no entries.
C13_DeleteTrackerCascades ==
  [][/\ (result'.op = "deleteTracker" /\ result'.success)
        => \A e \in DOMAIN entries' : entries'[e].trackerId # result'.args
     /\ (/\ result.op = "deleteTracker"
         /\ result.success
         /\ result'.op = "getEntriesByTracker"
         /\ result'.success
         /\ result'.args.trackerId = result.args)
        => result'.data = <<>>]_vars

\* the entries of a deleted tracker that had one were listed
C13_Witness ==
  /\ result.op = "getEntriesByTracker"
  /\ result.success
  /\ result.args.trackerId = 1
  /\ 1 \notin DOMAIN trackers
  /\ nextTrackerId > 1
  /\ nextEntryId > 1
  /\ result.data = <<>>

(***************************************************************************)
(* SpecWindows: one tracker of any type, entries created with explicit     *)
(* dates around the window starts of the current time, and getTrackerStats *)
(***************************************************************************)
MaxWindowEntries == 2

\* Tuesday 13 January and Friday 2 January 1970, one second after midnight:
\* the month starts before the week in the first, after it in the second.
\* Instants are 32-bit numbers of milliseconds, which span 24 days on each
\* side of 1 January 1970.
WindowInstants == {12 * MsPerDay + MsPerSecond, MsPerDay + MsPerSecond}

\* a date before the three window starts
LongAgo == now - 20 * MsPerDay

\* long ago, the three window starts, and tomorrow
WindowDates ==
  {LongAgo, MonthStart(now), WeekStart(now), TodayStart(now), now + MsPerDay}

WindowsEntryInputs ==
  CASE trackers[1].type = "TIMER" ->
         {[NewEntryInput(1, d, d + 2 * MsPerSecond, Null) EXCEPT !.date = d] :
            d \in WindowDates}
         \cup {[NewEntryInput(1, d, Null, 5) EXCEPT !.date = d] : d \in WindowDates}
    [] trackers[1].type \in {"COUNTER", "AMOUNT"} ->
         {[NewEntryInput(1, Null, Null, v) EXCEPT !.date = d] :
            v \in {Null, 3}, d \in WindowDates}
    [] OTHER ->
         {[NewEntryInput(1, Null, Null, v) EXCEPT !.date = d] :
            v \in {Null, 5}, d \in WindowDates}

WindowsCreateEntry == CreateEntryFrom(WindowsEntryInputs, {FALSE}, MaxWindowEntries)
WindowsGetTrackerStats == GetTrackerStatsFrom({1}, {FALSE})

WindowsInit ==
  /\ \E type \in TrackerType : trackers = (1 :> NewTracker(<<"a">>, type, 0))
  /\ entries = <<>>
  /\ nextEntryId = 1
  /\ nextTrackerId = 2
  /\ now \in WindowInstants
  /\ result = NoCall
  /\ history = <<>>
  /\ txn = <<>>
  /\ calls = 0
  /\ currentValue = 0

WindowsNext ==
  /\ \/ WindowsCreateEntry
     \/ WindowsGetTrackerStats
  /\ UNCHANGED <<history, txn, calls, currentValue>>

SpecWindows == WindowsInit /\ [][WindowsNext]_vars

\* the type-specific aggregate of tracker 1 over the entries dated in
\* from..to
AggregateBetween(from, to) ==
  LET In(S) == {e \in S : entries[e].date >= from /\ entries[e].date <= to}
  IN CASE trackers[1].type = "TIMER" -> SumOfValues(In(CompletedEntries(1)))
       [] trackers[1].type \in {"COUNTER", "AMOUNT"} -> SumOfValues(In(ValuedEntries(1)))
       [] OTHER -> Cardinality(In(EntriesOf(DB, 1)))

\* later than every date of the model
EndOfTime == 24 * MsPerDay

C15_WindowsEndNow ==
  (result.op = "getTrackerStats" /\ result.success)
  => /\ result.data.today = AggregateBetween(TodayStart(now), now)
     /\ result.data.week = AggregateBetween(WeekStart(now), now)
     /\ result.data.month = AggregateBetween(MonthStart(now), now)

(***************************************************************************)
(* SpecEntryPages: one COUNTER tracker, entries created with explicit      *)
(* dates, and the entry list fetched page by page the way fetchEntries of  *)
(* useTracker does: getEntriesByTracker(trackerId, limit || 50, page || 1).*)
(* The action declares two parameters, so the third argument is dropped;   *)
(* history is the page that the last fetch asked for.                      *)
(***************************************************************************)
MaxPageEntries == 3

PagesEntryInputs ==
  {[NewEntryInput(1, Null, Null, v) EXCEPT !.date = d] :
     v \in {1, 2}, d \in {0, MsPerSecond}}

PagesCreateEntry ==
  /\ CreateEntryFrom(PagesEntryInputs, {FALSE}, MaxPageEntries)
  /\ UNCHANGED history

PagesFetchEntries ==
  \E limit \in {1, 2}, page \in {1, 2} :
    /\ getEntriesByTracker(1, limit, FALSE)
    /\ history' = page

PagesInit ==
  /\ trackers = (1 :> NewTracker(<<"a">>, "COUNTER", 0))
  /\ entries = <<>>
  /\ nextEntryId = 1
  /\ nextTrackerId = 2
  /\ now = 0
  /\ result = NoCall
  /\ history = 1
  /\ txn = <<>>
  /\ calls = 0
  /\ currentValue = 0

PagesNext ==
  /\ \/ PagesCreateEntry
     \/ PagesFetchEntries
  /\ UNCHANGED <<txn, calls, currentValue>>

SpecEntryPages == PagesInit /\ [][PagesNext]_vars

\* C16: getEntriesByTracker(trackerId, limit, page) returns the entries of
\* the tracker at positions (page-1)*limit+1 .. page*limit of the order by
\* date descending, so different pages of one limit are disjoint slices.
C16_EntriesArePaged ==
  (result.op = "getEntriesByTracker" /\ result.success)
  => \E s \in EntriesByDateDesc(DB, result.args.trackerId) :
       result.data = SkipTake(s, (history - 1) * result.args.limit, result.args.limit)

(***************************************************************************)
(* SpecList: a collection of up to MaxListed trackers, as createTracker,   *)
(* updateTracker and the entry actions leave them, and getTrackers called  *)
(* with filters, sort keys, pages and limits                               *)
(***************************************************************************)
MaxListed == 2

\* name, description, type, status and tags of the trackers listed: two
\* share a name, one matches "a" by its name, one by its description, one
\* by a tag
ListProfiles ==
  {[name |-> <<"a", "B">>, description |-> NullString, type |-> "TIMER",
    status |-> "ACTIVE", tags |-> {}],
   [name |-> <<"b">>, description |-> <<"A">>, type |-> "COUNTER",
    status |-> "INACTIVE", tags |-> {}],
   [name |-> <<"b">>, description |-> NullString, type |-> "TIMER",
    status |-> "INACTIVE", tags |-> {<<"a">>}]}

\* the first tracker is created at 0, the others half a second later; a
\* tracker touched since has the updatedAt of one second
ListTracker(id, profile, touched) ==
  [name |-> profile.name, description |-> profile.description,
   tags |-> profile.tags, type |-> profile.type, status |-> profile.status,
   statistics |-> NoStats,
   createdAt |-> IF id = 1 THEN 0 ELSE HalfSecond,
   updatedAt |-> IF touched THEN MsPerSecond
                 ELSE IF id = 1 THEN 0 ELSE HalfSecond]

ListFilterInputs ==
  {[NoFilters EXCEPT !.status = st, !.type = ty, !.search = se] :
     st \in {NoFilter, "INACTIVE"}, ty \in {NoFilter, "TIMER"},
     se \in {NoString, <<"a">>}}
  \cup {[NoFilters EXCEPT !.sort = so, !.page = pg, !.limit = li] :
          so \in {"undefined", "name", "created", "bogus"},
          pg \in {Undefined, 0, 2}, li \in {Undefined, 1, 2}}
  \cup {[NoFilters EXCEPT !.status = "INACTIVE", !.sort = "name",
                          !.page = pg, !.limit = 1] : pg \in {1, 2, 3}}

ListGetTrackers == GetTrackersFrom(ListFilterInputs, {FALSE})

ListInit ==
  /\ \E n \in 0..MaxListed :
       \E profile \in [1..n -> ListProfiles], touched \in [1..n -> BOOLEAN] :
         trackers = [id \in 1..n |-> ListTracker(id, profile[id], touched[id])]
         /\ nextTrackerId = n + 1
  /\ entries = <<>>
  /\ nextEntryId = 1
  /\ now = MsPerSecond
  /\ result = NoCall
  /\ history = <<>>
  /\ txn = <<>>
  /\ calls = 0
  /\ currentValue = 0

ListNext ==
  /\ ListGetTrackers
  /\ UNCHANGED <<history, txn, calls, currentValue>>

SpecList == ListInit /\ [][ListNext]_vars

\* the tracker satisfies every filter supplied
SatisfiesFilters(id, f) ==
  /\ f.status # NoFilter => trackers[id].status = f.status
  /\ f.type # NoFilter => trackers[id].type = f.type
  /\ HasString(f.search) =>
       \/ ContainsInsensitive(trackers[id].name, f.search)
       \/ /\ HasString(trackers[id].description)
          /\ ContainsInsensitive(trackers[id].description, f.search)
       \/ f.search \in trackers[id].tags

\* x comes strictly before y in the requested order
ListedBefore(x, y, sort) ==
  CASE sort = "name" -> StringLess(trackers[x].name, trackers[y].name)
    [] sort = "created" -> trackers[x].createdAt > trackers[y].createdAt
    [] OTHER -> trackers[x].updatedAt > trackers[y].updatedAt

C18_OnlyOwnTotalIsSet ==
  \A id \in DOMAIN trackers :
    /\ trackers[id].type = "TIMER" => Stat(trackers[id], "totalValue") = 0
    /\ trackers[id].type \in {"COUNTER", "AMOUNT"}
         => Stat(trackers[id], "totalTime") = 0

\* C19: every successful createEntry, updateEntry or deleteEntry sets the
\* updatedAt of the tracker that owns the entry to the time of the call.
C19_EntryMutationBumpsUpdatedAt ==
  [][(result'.op \in {"createEntry", "updateEntry", "deleteEntry"}
      /\ result'.success)
     => LET owner ==
              CASE result'.op = "createEntry" -> result'.args.trackerId
                [] result'.op = "updateEntry" -> entries'[result'.args.id].trackerId
                [] OTHER -> entries[result'.args].trackerId
        IN owner \in DOMAIN trackers' => trackers'[owner].updatedAt = now]_vars

(***************************************************************************)
(* SpecCounter: the CounterTracker component of a COUNTER tracker after    *)
(* its first load; currentValue is the count it displays, calls counts the *)
(* clicks, and the store may fail any request                              *)
(***************************************************************************)
MaxClicks == 3

ResetNoteLen == 13

\* addEntry: the entry data built from the form, dated now
AddEntryData(trackerId, value, noteLen) ==
  [NewEntryInput(trackerId, Undefined, Undefined, value)
     EXCEPT !.date = now, !.noteLen = noteLen]

\* the response of addEntry is not looked at, and addEntry does not throw
handleIncrement(changeAmount, fault) ==
  /\ createEntry(AddEntryData(1, changeAmount, 0), fault)
  /\ currentValue' = currentValue + changeAmount

handleDecrement(changeAmount, fault) ==
  /\ createEntry(AddEntryData(1, -changeAmount, 0), fault)
  /\ currentValue' = currentValue - changeAmount

handleReset(fault) ==
  LET resetAmount == -currentValue IN
  /\ IF resetAmount # 0
     THEN createEntry(AddEntryData(1, resetAmount, ResetNoteLen), fault)
     ELSE /\ result' = NoCall
          /\ UNCHANGED <<trackers, entries, nextEntryId, nextTrackerId, now>>
  /\ currentValue' = 0

ChangeAmounts == {1, 2}

CounterIncrement ==
  \E changeAmount \in ChangeAmounts, fault \in BOOLEAN :
    handleIncrement(changeAmount, fault)

CounterDecrement ==
  \E changeAmount \in ChangeAmounts, fault \in BOOLEAN :
    handleDecrement(changeAmount, fault)

CounterReset == \E fault \in BOOLEAN : handleReset(fault)

CounterInit ==
  /\ trackers = (1 :> NewTracker(<<"a">>, "COUNTER", 0))
  /\ entries = <<>>
  /\ nextEntryId = 1
  /\ nextTrackerId = 2
  /\ now = 0
  /\ result = NoCall
  /\ history = <<>>
  /\ txn = <<>>
  /\ calls = 0
  /\ currentValue = 0

CounterNext ==
  /\ calls < MaxClicks
  /\ calls' = calls + 1
  /\ \/ CounterIncrement
     \/ CounterDecrement
     \/ CounterReset
  /\ UNCHANGED <<history, txn>>

SpecCounter == CounterInit /\ [][CounterNext]_vars

\* C20: when the request made by an increment, decrement or reset fails,
\* the counter value displayed after it equals the value displayed before.
C20_FailedMutationKeepsDisplay ==
  [][(result'.op = "createEntry" /\ ~result'.success)
     => currentValue' = currentValue]_varsByField

(***************************************************************************)
(* SpecValidation: createTracker, updateTracker, createEntry and           *)
(* updateEntry called with inputs the schemas accept and with inputs that  *)
(* break one rule or two                                                   *)
(***************************************************************************)
MaxValidated == 1

LongString(n) == [i \in 1..n |-> "a"]

ValidTrackerInput == NewTrackerInput(<<"a">>, "TIMER")

ValidationTrackerInputs ==
  {ValidTrackerInput,
   [ValidTrackerInput EXCEPT !.name = LongString(NameMax),
                             !.color = <<"#", "h", "h", "h">>],
   [ValidTrackerInput EXCEPT !.name = <<>>],
   [ValidTrackerInput EXCEPT !.name = LongString(NameMax + 1)],
   [ValidTrackerInput EXCEPT !.description = LongString(DescriptionMax + 1)],
   [ValidTrackerInput EXCEPT !.type = "BOGUS"],
   [ValidTrackerInput EXCEPT !.color = <<"#", "h", "h">>],
   [ValidTrackerInput EXCEPT !.color = <<"#", "h", "x", "h">>],
   [ValidTrackerInput EXCEPT !.name = <<>>, !.color = <<"h", "h", "h">>]}

ValidationTrackerChanges ==
  {[NoTrackerChange EXCEPT !.status = "ARCHIVED"],
   [NoTrackerChange EXCEPT !.color = <<"#", "h", "h", "h", "h", "h", "h">>],
   [NoTrackerChange EXCEPT !.name = <<>>],
   [NoTrackerChange EXCEPT !.name = LongString(NameMax + 1)],
   [NoTrackerChange EXCEPT !.description = LongString(DescriptionMax + 1)],
   [NoTrackerChange EXCEPT !.type = "BOGUS"],
   [NoTrackerChange EXCEPT !.status = "ARCHIVED",
                           !.color = <<"#", "h", "h", "h", "h">>]}

ValidationEntryInputs ==
  {[NewEntryInput(tid, Null, Null, 5) EXCEPT !.noteLen = n] :
     tid \in {EmptyId, 1}, n \in {NoteMax, NoteMax + 1}}

ValidationEntryChanges ==
  {[NoEntryChange EXCEPT !.value = 7, !.noteLen = NoteMax],
   [NoEntryChange EXCEPT !.value = 7, !.noteLen = NoteMax + 1],
   [NoEntryChange EXCEPT !.value = 7, !.trackerId = EmptyId]}

ValidationCreateTracker ==
  /\ nextTrackerId <= MaxValidated
  /\ \E data \in ValidationTrackerInputs : createTracker(data, FALSE)

ValidationUpdateTracker ==
  UpdateTrackerFrom(1..MaxValidated, ValidationTrackerChanges, {FALSE})

ValidationCreateEntry ==
  CreateEntryFrom(ValidationEntryInputs, {FALSE}, MaxValidated)

ValidationUpdateEntry ==
  UpdateEntryFrom(1..MaxValidated, ValidationEntryChanges, {FALSE})

ValidationNext ==
  /\ \/ ValidationCreateTracker
     \/ ValidationUpdateTracker
     \/ ValidationCreateEntry
     \/ ValidationUpdateEntry
  /\ UNCHANGED <<history, txn, calls, currentValue>>

SpecValidation == Init /\ [][ValidationNext]_vars

\* the entry data has an empty trackerId or a note of more than 500
\* characters
EntryRejected(d) == d.trackerId = EmptyId \/ d.noteLen > 500

\* the tracker data has an empty or over-50-character name, an
\* over-200-character description, a type that is no tracker type, or a
\* color that is not "#" and 3 or 6 hexadecimal digits
TrackerRejected(d) ==
  \/ /\ HasString(d.name) \/ d.name = <<>>
     /\ Len(d.name) = 0 \/ Len(d.name) > 50
  \/ HasString(d.description) /\ Len(d.description) > 200
  \/ d.type \notin TrackerType \cup {"undefined"}
  \/ /\ HasString(d.color)
     /\ d.color \notin {<<"#">> \o [i \in 1..n |-> "h"] : n \in {3, 6}}

\* the step is a call whose input the validation schema rejects
RejectedStep ==
  \/ result'.op = "createEntry" /\ EntryRejected(result'.args)
  \/ result'.op = "updateEntry" /\ EntryRejected(result'.args.data)
  \/ result'.op = "createTracker" /\ TrackerRejected(result'.args)
  \/ result'.op = "updateTracker" /\ TrackerRejected(result'.args.data)

\* the message of the schema for the input of the call
SchemaMessage(r) ==
  CASE r.op = "createEntry" -> EntryValidationError(r.args)
    [] r.op = "updateEntry" -> EntryValidationError(r.args.data)
    [] r.op = "createTracker" -> TrackerValidationError(r.args, FALSE)
    [] r.op = "updateTracker" -> TrackerValidationError(r.args.data, TRUE)

\* C21: a createEntry, updateEntry, createTracker or updateTracker whose
\* input the validation schema rejects returns a failure whose error is the
\* validation message of the broken rules, and writes nothing to the store.
C21_RejectedInputWritesNothing ==
  [][RejectedStep
     => /\ ~result'.success
        /\ result'.outcome = "returned"
        /\ result'.error # ""
        /\ result'.error = SchemaMessage(result')
        /\ trackers' = trackers
        /\ entries' = entries
        /\ nextTrackerId' = nextTrackerId
        /\ nextEntryId' = nextEntryId]_varsByField

\* an updateTracker of an existing tracker was rejected for its color
C21_Witness ==
  /\ result.op = "updateTracker"
  /\ result.args.id \in DOMAIN trackers
  /\ ~result.success
  /\ result.error = "Validation failed: Invalid color format"
  /\ entries # <<>>

\* what an entry contributes to the total of its tracker's type: its value,
\* or the duration computed from its times
Contribution(entry) ==
  IF IsSet(entry.value) THEN entry.value
  ELSE IF IsSet(entry.startTime) /\ IsSet(entry.endTime)
  THEN DurationInSeconds(entry.startTime, entry.endTime)
  ELSE 0

\* C22: a successful deleteEntry of an existing entry sets its tracker's
\* totalEntries to max(0, totalEntries - 1) and the total of the tracker's
\* type (totalTime for TIMER, totalValue for COUNTER and AMOUNT) to
\* max(0, total - c), c being the contribution of the deleted entry.
C22_DeleteSubtractsContribution ==
  [][(/\ result'.op = "deleteEntry"
      /\ result'.success
      /\ result'.args \in DOMAIN entries
      /\ entries[result'.args].trackerId \in DOMAIN trackers)
     => LET entry == entries[result'.args]
            tid == entry.trackerId
            before == trackers[tid]
            after == trackers'[tid]
        IN /\ Stat(after, "totalEntries")
                = Max(0, Stat(before, "totalEntries") - 1)
           /\ before.type = "TIMER"
                => Stat(after, "totalTime")
                     = Max(0, Stat(before, "totalTime") - Contribution(entry))
           /\ before.type \in {"COUNTER", "AMOUNT"}
                => Stat(after, "totalValue")
                     = Max(0, Stat(before, "totalValue") - Contribution(entry))
    ]_varsByField

(***************************************************************************)
(* SpecCustom: an OCCURRENCE or CUSTOM tracker, without statistics or with *)
(* custom data stored in them, and createEntry, updateEntry and            *)
(* deleteEntry on it                                                       *)
(***************************************************************************)
MaxCustomEntries == 2

CustomEntryInputs == {NewEntryInput(1, Null, Null, v) : v \in {Null, 5}}

CustomEntryChanges ==
  {[NoEntryChange EXCEPT !.value = -2], [NoEntryChange EXCEPT !.noteLen = 1]}

CustomCreateEntry == CreateEntryFrom(CustomEntryInputs, {FALSE}, MaxCustomEntries)
CustomUpdateEntry ==
  UpdateEntryFrom(1..MaxCustomEntries, CustomEntryChanges, {FALSE})
CustomDeleteEntry == DeleteEntryFrom(1..MaxCustomEntries, {FALSE})

CustomInit ==
  /\ \E type \in {"OCCURRENCE", "CUSTOM"},
        statistics \in {NoStats,
                        SetStatistics([totalEntries |-> 0, totalCustom |-> "x"])} :
       trackers = (1 :> [NewTracker(<<"a">>, type, 0)
                           EXCEPT !.statistics = statistics])
  /\ entries = <<>>
  /\ nextEntryId = 1
  /\ nextTrackerId = 2
  /\ now = 0
  /\ result = NoCall
  /\ history = <<>>
  /\ txn = <<>>
  /\ calls = 0
  /\ currentValue = 0

CustomNext ==
  /\ \/ CustomCreateEntry
     \/ CustomUpdateEntry
     \/ CustomDeleteEntry
  /\ UNCHANGED <<history, txn, calls, currentValue>>

SpecCustom == CustomInit /\ [][CustomNext]_vars

\* the step is a successful createEntry, updateEntry or deleteEntry on an
\* entry of tracker 1
CustomMutationStep ==
  /\ result'.success
  /\ \/ result'.op = "createEntry" /\ result'.args.trackerId = 1
     \/ /\ result'.op = "updateEntry"
        /\ result'.args.id \in DOMAIN entries
        /\ entries[result'.args.id].trackerId = 1
     \/ /\ result'.op = "deleteEntry"
        /\ result'.args \in DOMAIN entries
        /\ entries[result'.args].trackerId = 1

\* C23: on an OCCURRENCE or CUSTOM tracker a successful createEntry adds
\* exactly 1 to totalEntries whether or not the entry carries a value, and
\* createEntry, updateEntry and deleteEntry leave totalCustom as it was.
C23_CountsEveryEntryKeepsCustom ==
  [][(CustomMutationStep /\ trackers[1].type \in {"OCCURRENCE", "CUSTOM"})
     => /\ StatCustom(trackers'[1]) = StatCustom(trackers[1])
        /\ result'.op = "createEntry"
             => Stat(trackers'[1], "totalEntries")
                  = Stat(trackers[1], "totalEntries") + 1]_varsByField

\* an entry without value was created on a tracker that holds custom data,
\* after another entry had been deleted
C23_Witness ==
  /\ result.op = "createEntry"
  /\ result.success
  /\ result.args.value = Null
  /\ trackers[1].statistics.totalCustom = "x"
  /\ trackers[1].statistics.totalEntries = 1
  /\ nextEntryId = 3

(***************************************************************************)
(* SpecSessions and SpecStatus: a TIMER tracker and its timer sessions,    *)
(* made by createEntry (zero-length, completed, ending before they start,  *)
(* or with an explicit value) and by startTimerEntry, with the clock       *)
(* running. SpecSessions has createEntry, updateEntry, startTimerEntry and *)
(* stopTimerEntry; SpecStatus has deleteEntry in place of updateEntry.     *)
(***************************************************************************)
MaxTimerEntries == 2

SessionEnd == MsPerSecond + 600

TimerEntryInputs ==
  {NewEntryInput(1, 0, 0, Null),
   NewEntryInput(1, 0, SessionEnd, Null),
   NewEntryInput(1, SessionEnd, 0, Null),
   NewEntryInput(1, 0, SessionEnd, 5),
   NewEntryInput(1, 0, Undefined, Null)}

TimerEntryChanges ==
  {[NoEntryChange EXCEPT !.endTime = SessionEnd],
   [NoEntryChange EXCEPT !.startTime = 0, !.endTime = SessionEnd, !.value = 5]}

TimerEntryIds == 1..MaxTimerEntries

TimerCreateEntry == CreateEntryFrom(TimerEntryInputs, {FALSE}, MaxTimerEntries)
TimerUpdateEntry == UpdateEntryFrom(TimerEntryIds, TimerEntryChanges, {FALSE})
TimerDeleteEntry == DeleteEntryFrom(TimerEntryIds, {FALSE})
TimerStartTimerEntry == StartTimerEntryFrom({1}, {FALSE}, MaxTimerEntries)
TimerStopTimerEntry == StopTimerEntryFrom(TimerEntryIds, {FALSE})

TimerInit ==
  /\ trackers = (1 :> NewTracker(<<"a">>, "TIMER", 0))
  /\ entries = <<>>
  /\ nextEntryId = 1
  /\ nextTrackerId = 2
  /\ now = 0
  /\ result = NoCall
  /\ history = <<>>
  /\ txn = <<>>
  /\ calls = 0
  /\ currentValue = 0

SessionsNext ==
  /\ \/ TimerCreateEntry
     \/ TimerUpdateEntry
     \/ TimerStartTimerEntry
     \/ TimerStopTimerEntry
     \/ Tick
  /\ UNCHANGED <<history, txn, calls, currentValue>>

SpecSessions == TimerInit /\ [][SessionsNext]_vars

StatusNext ==
  /\ \/ TimerCreateEntry
     \/ TimerDeleteEntry
     \/ TimerStartTimerEntry
     \/ TimerStopTimerEntry
     \/ Tick
  /\ UNCHANGED <<history, txn, calls, currentValue>>

SpecStatus == TimerInit /\ [][StatusNext]_vars

\* C24: whatever createEntry, startTimerEntry, stopTimerEntry and
\* updateEntry calls have been made, each entry is counted in its tracker's
\* totalEntries at most once: totalEntries never exceeds the number of the
\* tracker's entries.
C24_EntryCountedAtMostOnce ==
  \A tid \in DOMAIN trackers :
    Stat(trackers[tid], "totalEntries") <= Cardinality(EntriesOf(DB, tid))

(***************************************************************************)
(* SpecMove: two trackers of one type, entries created on either, and      *)
(* updateEntry moving an entry from one tracker to the other               *)
(***************************************************************************)
MaxMoved == 2

MoveTrackerIds == {1, 2}

MoveEntryInputs ==
  IF trackers[1].type = "TIMER"
  THEN {NewEntryInput(tid, 0, SessionEnd, Null) : tid \in MoveTrackerIds}
  ELSE {NewEntryInput(tid, Null, Null, 5) : tid \in MoveTrackerIds}

MoveEntryChanges ==
  {[NoEntryChange EXCEPT !.trackerId = tid] : tid \in MoveTrackerIds}

MoveCreateEntry == CreateEntryFrom(MoveEntryInputs, {FALSE}, MaxMoved)
MoveUpdateEntry == UpdateEntryFrom(1..MaxMoved, MoveEntryChanges, {FALSE})

MoveInit ==
  /\ \E type \in {"TIMER", "COUNTER", "OCCURRENCE"} :
       trackers = (1 :> NewTracker(<<"a">>, type, 0))
                  @@ (2 :> NewTracker(<<"b">>, type, 0))
  /\ entries = <<>>
  /\ nextEntryId = 1
  /\ nextTrackerId = 3
  /\ now = 0
  /\ result = NoCall
  /\ history = <<>>
  /\ txn = <<>>
  /\ calls = 0
  /\ currentValue = 0

MoveNext ==
  /\ \/ MoveCreateEntry
     \/ MoveUpdateEntry
  /\ UNCHANGED <<history, txn, calls, currentValue>>

SpecMove == MoveInit /\ [][MoveNext]_vars

\* the step is a successful updateEntry that moves an entry to another
\* tracker
MoveStep ==
  /\ result'.op = "updateEntry"
  /\ result'.success
  /\ result'.args.id \in DOMAIN entries
  /\ result'.args.data.trackerId \in DOMAIN trackers
  /\ entries[result'.args.id].trackerId \in DOMAIN trackers
  /\ result'.args.data.trackerId # entries[result'.args.id].trackerId

\* C25: after a successful updateEntry that changes an entry's trackerId
\* from tracker A to tracker B, the statistics of A and of B are the
\* aggregates over their entries as they are now.
C25_MoveRecomputesBothTrackers ==
  [][\A a, b \in DOMAIN trackers :
       (/\ MoveStep
        /\ a = entries[result'.args.id].trackerId
        /\ b = result'.args.data.trackerId)
       => /\ StatisticsRederivable(a)'
          /\ StatisticsRederivable(b)']_varsByField

\* the entries of the tracker with a startTime and no endTime
OpenEntries(tid) ==
  {e \in EntriesOf(DB, tid) :
     IsSet(entries[e].startTime) /\ ~IsSet(entries[e].endTime)}

\* C26: whatever startTimerEntry, stopTimerEntry, createEntry and
\* deleteEntry calls have been made, a tracker's status is ACTIVE if and
\* only if it has at least one open timer entry.
C26_ActiveIffOpenEntry ==
  \A tid \in DOMAIN trackers :
    trackers[tid].status = "ACTIVE" <=> OpenEntries(tid) # {}

(***************************************************************************)
(* SpecArchived: a TIMER or COUNTER tracker that updateTracker has         *)
(* archived, and the six entry mutations on it                             *)
(***************************************************************************)
MaxArchivedEntries == 2

ArchivedEntryInputs ==
  IF trackers[1].type = "TIMER"
  THEN {NewEntryInput(1, 0, SessionEnd, Null)}
  ELSE {NewEntryInput(1, Null, Null, 5)}

ArchivedEntryChanges == {[NoEntryChange EXCEPT !.value = 7]}

ArchivedEntryIds == 1..MaxArchivedEntries

ArchivedCreateEntry ==
  CreateEntryFrom(ArchivedEntryInputs, {FALSE}, MaxArchivedEntries)
ArchivedUpdateEntry ==
  UpdateEntryFrom(ArchivedEntryIds, ArchivedEntryChanges, {FALSE})
ArchivedDeleteEntry == DeleteEntryFrom(ArchivedEntryIds, {FALSE})
ArchivedStartTimerEntry == StartTimerEntryFrom({1}, {FALSE}, MaxArchivedEntries)
ArchivedStopTimerEntry == StopTimerEntryFrom(ArchivedEntryIds, {FALSE})
ArchivedAddCounterEntry ==
  AddCounterEntryFrom({1}, {1}, {FALSE}, MaxArchivedEntries)

ArchivedInit ==
  /\ \E type \in {"TIMER", "COUNTER"} :
       trackers = (1 :> [NewTracker(<<"a">>, type, 0)
                           EXCEPT !.status = "ARCHIVED"])
  /\ entries = <<>>
  /\ nextEntryId = 1
  /\ nextTrackerId = 2
  /\ now = 0
  /\ result = NoCall
  /\ history = <<>>
  /\ txn = <<>>
  /\ calls = 0
  /\ currentValue = 0

ArchivedNext ==
  /\ \/ ArchivedCreateEntry
     \/ ArchivedUpdateEntry
     \/ ArchivedDeleteEntry
     \/ ArchivedStartTimerEntry
     \/ ArchivedStopTimerEntry
     \/ ArchivedAddCounterEntry
     \/ Tick
  /\ UNCHANGED <<history, txn, calls, currentValue>>

SpecArchived == ArchivedInit /\ [][ArchivedNext]_vars

\* C27: no entry operation changes the status of a tracker whose status is
\* ARCHIVED.
C27_ArchivedStaysArchived ==
  [][\A tid \in DOMAIN trackers \cap DOMAIN trackers' :
       trackers[tid].status = "ARCHIVED"
         => trackers'[tid].status = "ARCHIVED"]_varsByField

\* C28: in every reachable state each tracker's totalEntries and totalTime
\* are non-negative, for any inputs the entry actions accept.
C28_TotalsNeverNegative ==
  \A tid \in DOMAIN trackers :
    /\ Stat(trackers[tid], "totalEntries") >= 0
    /\ Stat(trackers[tid], "totalTime") >= 0

\* C29: in every reachable state every entry with both startTime and
\* endTime set has a stored value equal to the rounded number of seconds
\* between them.
C29_ValueIsDuration ==
  \A e \in DOMAIN entries :
    (IsSet(entries[e].startTime) /\ IsSet(entries[e].endTime))
      => entries[e].value
           = DurationInSeconds(entries[e].startTime, entries[e].endTime)

(***************************************************************************)
(* SpecCountWindows: an OCCURRENCE or CUSTOM tracker, entries dated around *)
(* the window starts, and getTrackerStats called on a first of the month,  *)
(* on Sundays, on a Saturday and on days in between                        *)
(***************************************************************************)
MaxCountedEntries == 2

\* Thursday 1, Sunday 4, Sunday 11, Tuesday 13 and Saturday 17 January 1970,
\* at one second past midnight
CountInstants == {d * MsPerDay + MsPerSecond : d \in {0, 3, 10, 12, 16}}

\* the window starts, the millisecond before each, long ago, and tomorrow
CountDates ==
  {LongAgo, now + MsPerDay}
  \cup {start - k : start \in {MonthStart(now), WeekStart(now), TodayStart(now)},
                    k \in {0, 1}}

CountEntryInputs ==
  {[NewEntryInput(1, Null, Null, Null) EXCEPT !.date = d] : d \in CountDates}

CountCreateEntry == CreateEntryFrom(CountEntryInputs, {FALSE}, MaxCountedEntries)
CountGetTrackerStats == GetTrackerStatsFrom({1}, {FALSE})

CountInit ==
  /\ \E type \in {"OCCURRENCE", "CUSTOM"} :
       trackers = (1 :> NewTracker(<<"a">>, type, 0))
  /\ entries = <<>>
  /\ nextEntryId = 1
  /\ nextTrackerId = 2
  /\ now \in CountInstants
  /\ result = NoCall
  /\ history = <<>>
  /\ txn = <<>>
  /\ calls = 0
  /\ currentValue = 0

CountNext ==
  /\ \/ CountCreateEntry
     \/ CountGetTrackerStats
  /\ UNCHANGED <<history, txn, calls, currentValue>>

SpecCountWindows == CountInit /\ [][CountNext]_vars

\* C30: for an OCCURRENCE or CUSTOM tracker getTrackerStats returns
\* today <= week and today <= month; the start of today is the week start
\* (a Sunday) or up to 6 days after it, and is not before the first of the
\* month.
C30_TodayWithinWeekAndMonth ==
  /\ WeekStart(now) <= TodayStart(now)
  /\ TodayStart(now) - WeekStart(now) <= 6 * MsPerDay
  /\ DayOfWeek(WeekStart(now) + 7 * MsPerDay) = 0
  /\ MonthStart(now) <= TodayStart(now)
  /\ (/\ result.op = "getTrackerStats"
      /\ result.success
      /\ trackers[result.args].type \in {"OCCURRENCE", "CUSTOM"})
     => /\ result.data.today <= result.data.week
        /\ result.data.today <= result.data.month

\* on a Saturday the statistics of a tracker with an entry of today and one
\* of the Sunday before were returned
C30_Witness ==
  /\ result.op = "getTrackerStats"
  /\ result.success
  /\ TodayStart(now) - WeekStart(now) = 6 * MsPerDay
  /\ result.data.today = 1
  /\ result.data.week = 2
  /\ result.data.month = 2

====
